---- MODULE Spec2Model ----
(***************************************************************************)
(* cuboid-opencl, src/main.c: the host program that computes the surface   *)
(* area of LENGTH cuboids on an OpenCL device and again sequentially.      *)
(* The model follows main() statement by statement.  Host arrays are       *)
(* sequences indexed from 1 (C index i is TLA+ index i + 1).               *)
(***************************************************************************)
EXTENDS Integers, Sequences, FiniteSets, TLC

\* ------------------------------------------------------------- bounds
MaxLength == 1          \* element counts 1..MaxLength are enumerated
MaxPlatforms == 2       \* 0..MaxPlatforms installed platforms
MaxReleaseFailures == 1 \* at most so many releases of a run fail

\* ------------------------------------------------- program constants
CL_SUCCESS == 0
CL_DEVICE_NOT_FOUND == -1
CL_OUT_OF_RESOURCES == -5
CL_OUT_OF_HOST_MEMORY == -6
CL_INVALID_KERNEL_ARGS == -52
EXIT_SUCCESS == 0
EXIT_FAILURE == 1
NULL == 0
RAND_RANGE == 9         \* rand() % 9
PRINT_COUNT == 100      \* for(int i = 0; i < 100; i++)
sizeof_int == 4
sizeof_float == 4

\* Statuses a device-API call may return.
Statuses == {CL_SUCCESS, CL_OUT_OF_RESOURCES, CL_OUT_OF_HOST_MEMORY}

\* Values rand() returns in the enumerated runs (0..RAND_MAX in the program).
RandOutputs == {8, 9}

\* ------------------------------------------------------ pure helpers
\* A plausible slip: the modulus left out, rand() + 1.
RandValueNoModulus(r) == r + 1

\* source_x[i] = (rand() % 9) + 1
RandValue(r) == (r % RAND_RANGE) + 1

GeneratedValues == {RandValue(r) : r \in RandOutputs}

\* The testable scenario of the design: N=4, a=[1,2,3,4], b=[1,1,1,1], c=[2,2,2,2].
ScenarioA == <<1, 2, 3, 4>>
ScenarioB == <<1, 1, 1, 1>>
ScenarioC == <<2, 2, 2, 2>>

\* A run with more elements than the print loop shows (LENGTH is 1024*1024*75
\* in the program): one element more than the loop prints.
LongLength == PRINT_COUNT + 1

\* The value the j-th call of rand() returns in that run, j = 0, 1, 2, ...
RandStream(j) == (j \div 3) + (j % 3) * (j \div 27)

\* The range of a C int of sizeof(int) bytes, two's complement.
INT_MAX == (2 ^ (8 * sizeof_int - 2) - 1) * 2 + 1
INT_MIN == -INT_MAX - 1

\* calloc(LENGTH, sizeof(int)): n zeroed ints
calloc(n) == [k \in 1..n |-> 0]

\* Bitwise operations on naturals, bit by bit.
RECURSIVE NatAnd(_, _)
NatAnd(a, b) ==
    IF a = 0 \/ b = 0 THEN 0
    ELSE (IF a % 2 = 1 /\ b % 2 = 1 THEN 1 ELSE 0) + 2 * NatAnd(a \div 2, b \div 2)

RECURSIVE NatOr(_, _)
NatOr(a, b) ==
    IF a = 0 THEN b
    ELSE IF b = 0 THEN a
    ELSE (IF a % 2 = 1 \/ b % 2 = 1 THEN 1 ELSE 0) + 2 * NatOr(a \div 2, b \div 2)

\* a AND NOT b
RECURSIVE NatAndNot(_, _)
NatAndNot(a, b) ==
    IF a = 0 THEN 0
    ELSE (IF a % 2 = 1 /\ b % 2 = 0 THEN 1 ELSE 0) + 2 * NatAndNot(a \div 2, b \div 2)

\* A plausible slip in "err |= ...": plain assignment, the earlier status is lost.
BitOrOverwrite(a, b) == b

\* The C operator | on two's-complement ints (~x = -x - 1):
\* a | b = ~(~a & ~b).
BitOr(a, b) ==
    IF a >= 0 /\ b >= 0 THEN NatOr(a, b)
    ELSE IF a < 0 /\ b < 0 THEN -NatAnd(-a - 1, -b - 1) - 1
    ELSE IF a < 0 THEN -NatAndNot(-a - 1, b) - 1
    ELSE -NatAndNot(-b - 1, a) - 1

\* A plausible slip in the kernel source: one face of the cuboid counted twice.
cuboid_area_wrong(a, b, c) == 2 * ((a * b) + (b * c) + (a * b))

\* The kernel body: result[i] = 2 * ((a[i] * b[i]) + (b[i] * c[i]) + (a[i] * c[i]))
cuboid_area(a, b, c) == 2 * ((a * b) + (b * c) + (a * c))

\* The sequential loop body, line 228.
sequential_area(a, b, c) == 2 * ((a * b) + (b * c) + (a * c))

\* checkError(err, msg) of err_code.h: TRUE when it ends the run.
checkError(e) == e /= CL_SUCCESS

\* if (numPlatforms == 0), line 93
NoPlatformsMissed(n) == FALSE
NoPlatforms(n) == n = 0

\* A plausible slip: the test of line 114 written the wrong way round.
DeviceMissingInverted(d) == d /= NULL

\* if (device_id == NULL), line 114
DeviceMissing(d) == d = NULL

\* A plausible slip: the status of the build is never looked at.
BuildFailedNever(st) == FALSE

\* if (err != CL_SUCCESS) after clBuildProgram, line 157
BuildFailed(st) == st /= CL_SUCCESS

\* clEnqueueWriteBuffer(..., CL_TRUE, ...): the blocking flag of the uploads
WriteNonBlocking == FALSE
WriteIsBlocking == TRUE

\* What a device buffer created with a NULL host pointer holds before any
\* command has written it: a word no input and no area can be.
UninitializedWord == 0

\* if (err != CL_SUCCESS) after clEnqueueReadBuffer, line 219; the slip is a
\* status that is never looked at.
ReadFailedNever(st) == FALSE
ReadFailed(st) == st /= CL_SUCCESS

\* Lines 108-111: if (err == CL_SUCCESS) break; the slip is a loop without it.
NoBreak(st) == FALSE
BreakOnSuccess(st) == st = CL_SUCCESS

\* The access flag of each clCreateBuffer call, lines 173-182.
BufferFlags(o) ==
    IF o \in {"d_a", "d_b", "d_c"} THEN "CL_MEM_READ_ONLY"
    ELSE IF o = "d_result" THEN "CL_MEM_WRITE_ONLY"
    ELSE ""

\* The handle variable each clCreate... call passes as the object it creates in.
Parent(o) ==
    IF o = "context" THEN ""
    ELSE IF o = "kernel_cuboid_area" THEN "program"
    ELSE "context"

\* clCreateCommandQueue(context, device_id, 0, &err): the properties argument.
\* Bit 0 of it asks for out-of-order execution; the slip sets it.
CL_QUEUE_OUT_OF_ORDER_EXEC_MODE_ENABLE == 1
QueuePropertiesOutOfOrder == CL_QUEUE_OUT_OF_ORDER_EXEC_MODE_ENABLE
QueueProperties == 0

\* calloc(LENGTH, sizeof(int)): the bytes a host array occupies.
HostBytes(array) == Len(array) * sizeof_int

\* A plausible slip: the timer is started before the arguments are bound and
\* the uploads are done.
PipelineEarlyTimer ==
    << "get_num_platforms", "get_platform_ids", "secure_gpu", "check_device",
       "get_device_type", "get_comp_units", "create_context", "create_queue",
       "create_program", "build_program", "create_kernel",
       "create_d_a", "create_d_b", "create_d_c", "create_d_result",
       "start_timer", "write_a", "write_b", "write_c",
       "set_arg_0", "set_arg_1", "set_arg_2", "set_arg_3", "check_args",
       "enqueue_kernel", "finish", "stop_timer", "read_result",
       "sequential", "print_ratio", "print_results",
       "release_d_a", "release_d_b", "release_d_c", "release_program",
       "release_kernel", "release_commands", "release_context", "return" >>

\* The statements of main() after the input fill, in program order.
Pipeline ==
    << "get_num_platforms", "get_platform_ids", "secure_gpu", "check_device",
       "get_device_type", "get_comp_units", "create_context", "create_queue",
       "create_program", "build_program", "create_kernel",
       "create_d_a", "create_d_b", "create_d_c", "create_d_result",
       "write_a", "write_b", "write_c",
       "set_arg_0", "set_arg_1", "set_arg_2", "set_arg_3", "check_args",
       "start_timer", "enqueue_kernel", "finish", "stop_timer", "read_result",
       "sequential", "print_ratio", "print_results",
       "release_d_a", "release_d_b", "release_d_c", "release_program",
       "release_kernel", "release_commands", "release_context", "return" >>

\* The statement that follows statement l when l falls through.
After(l) ==
    LET k == CHOOSE j \in 1..Len(Pipeline) : Pipeline[j] = l
    IN  IF k < Len(Pipeline) THEN Pipeline[k + 1] ELSE "exited"

\* The device objects main() declares.
Buffers == {"d_a", "d_b", "d_c", "d_result"}
Objects == Buffers \cup {"context", "commands", "program", "kernel_cuboid_area"}

\* The calls of the OpenCL API main() makes.
DeviceOps ==
    { "clGetPlatformIDs", "clGetDeviceIDs", "clGetDeviceInfo", "clCreateContext",
      "clCreateCommandQueue", "clCreateProgramWithSource", "clBuildProgram",
      "clGetProgramBuildInfo", "clCreateKernel", "clCreateBuffer",
      "clEnqueueWriteBuffer", "clSetKernelArg", "clEnqueueNDRangeKernel",
      "clFinish", "clEnqueueReadBuffer", "clReleaseMemObject", "clReleaseProgram",
      "clReleaseKernel", "clReleaseCommandQueue", "clReleaseContext" }

\* The calls of the teardown.
ReleaseOps == {"clReleaseMemObject", "clReleaseProgram", "clReleaseKernel",
               "clReleaseCommandQueue", "clReleaseContext"}

\* ---------------------------------------------------------------- state
VARIABLES
    LENGTH,             \* the element count of the run
    source_a, source_b, source_c,       \* host input arrays
    result_opencl, result_sequential,   \* host result arrays
    gpu,                \* environment: gpu[p] iff platform p has a GPU device
    pc,                 \* the statement main() executes next
    exit_code,          \* {} while running, {code} once the process has ended
    err,                \* int err
    numPlatforms,       \* cl_uint numPlatforms
    i,                  \* the index of the platform loop
    device_id,          \* NULL, or the platform (1-based) the device came from
    obj,                \* each device object: "none", "live" or "released"
    built,              \* whether the program has been built
    mem,                \* contents of each device buffer, in ints
    args,               \* the kernel's argument bindings, positions 0..3
    queue,              \* commands enqueued and not yet executed by the device
    log,                \* history: the API and timer calls made, in order
    out,                \* the lines written to stdout, in order
    err_src,            \* history: the calls whose status err combines
    unexamined,         \* history: the calls whose status no test has read
    oob_reads,          \* host reads past the end of an array (print loop)
    created,            \* history: the arguments of every clCreate... call
    enqueued            \* history: the arguments of every clEnqueue... call

hostVars == <<LENGTH, source_a, source_b, source_c, gpu>>
vars == <<LENGTH, source_a, source_b, source_c, result_opencl, result_sequential,
          gpu, pc, exit_code, err, numPlatforms, i, device_id, obj, built, mem,
          args, queue, log, out, err_src, unexamined, oob_reads, created,
          enqueued>>

\* The fill loop, lines 79-84: every element is (rand() % 9) + 1.
Inputs(n) == [1..n -> GeneratedValues]

Init ==
    /\ \/ /\ LENGTH \in 1..MaxLength
          /\ source_a \in Inputs(LENGTH)
          /\ source_b \in Inputs(LENGTH)
          /\ source_c \in Inputs(LENGTH)
       \/ /\ LENGTH = Len(ScenarioA)
          /\ source_a = ScenarioA
          /\ source_b = ScenarioB
          /\ source_c = ScenarioC
       \/ /\ LENGTH = LongLength
          /\ source_a = [k \in 1..LongLength |-> RandValue(RandStream(3 * (k - 1)))]
          /\ source_b = [k \in 1..LongLength |-> RandValue(RandStream(3 * (k - 1) + 1))]
          /\ source_c = [k \in 1..LongLength |-> RandValue(RandStream(3 * (k - 1) + 2))]
    /\ result_opencl = calloc(LENGTH)
    /\ result_sequential = calloc(LENGTH)
    /\ gpu \in UNION {[1..p -> BOOLEAN] : p \in 0..MaxPlatforms}
    /\ pc = Pipeline[1]
    /\ exit_code = {}
    /\ err = CL_SUCCESS
    /\ numPlatforms = 0
    /\ i = 0
    /\ device_id = NULL
    /\ obj = [o \in Objects |-> "none"]
    /\ built = FALSE
    /\ mem = [b \in Buffers |-> <<>>]
    /\ args = [n \in 0..3 |-> "unset"]
    /\ queue = <<>>
    /\ log = <<>>
    /\ out = <<>>
    /\ err_src = {}
    /\ unexamined = {}
    /\ oob_reads = 0
    /\ created = <<>>
    /\ enqueued = <<>>

\* ------------------------------------------------------- action helpers
\* The index the next logged call gets.
K == Len(log) + 1

\* One entry of the history: the call, the object or query it names, an
\* integer operand (0 when it has none), whether it succeeded, and the calls
\* whose status nothing had read when it was made.
EntryN(op, arg, n, st) ==
    [op |-> op, arg |-> arg, n |-> n, ok |-> (st = CL_SUCCESS),
     pending |-> unexamined]

Entry(op, arg, st) == EntryN(op, arg, 0, st)

Issue(op, arg, st) == log' = Append(log, Entry(op, arg, st))

IssueN(op, arg, n, st) == log' = Append(log, EntryN(op, arg, n, st))

\* return code; / exit(code);
Exit(code) == pc' = "exited" /\ exit_code' = {code}

Goto(l) == pc' = l /\ UNCHANGED exit_code

\* One line of stdout: its text and the values formatted into it.
Line(text, vals) == [text |-> text, vals |-> vals]

printf(line) == out' = Append(out, Line(line, <<>>))

\* The byte count of every buffer and transfer: sizeof(float) * LENGTH.  The
\* slip passes the element count where the byte count is wanted.
BufferSizeInElements == LENGTH
BufferSize == sizeof_float * LENGTH

\* The value of a handle variable: the creation call that assigned it (its
\* position in the history of creations), NULL before and after a failed one.
Handle(v) ==
    LET S == {j \in 1..Len(created) : created[j].obj = v}
    IN  IF S = {} THEN NULL
        ELSE LET j == CHOOSE m \in S : \A n \in S : n <= m
             IN  IF created[j].ok THEN j ELSE NULL

\* The arguments of one clCreate... call.
Creation(o, st) ==
    [obj |-> o, ok |-> (st = CL_SUCCESS),
     in |-> IF Parent(o) = "" THEN NULL ELSE Handle(Parent(o)),
     device |-> IF o \in {"context", "commands"} THEN device_id ELSE NULL,
     properties |-> IF o = "commands" THEN QueueProperties ELSE 0,
     flags |-> BufferFlags(o),
     bytes |-> IF o \in Buffers THEN BufferSize ELSE 0]

\* The arguments of one clEnqueue... call: the queue, the buffer or kernel, the
\* bytes to move and the bytes of the host array they are moved from or to.
Enqueue(kind, what, bytes, host_bytes, st) ==
    enqueued' = Append(enqueued,
        [kind |-> kind, ok |-> (st = CL_SUCCESS), on |-> Handle("commands"),
         what |-> what, bytes |-> bytes, host_bytes |-> host_bytes])

\* A plausible slip: the call is made and checkError is left out.
Unchecked(l, op, arg, st) ==
    /\ Issue(op, arg, st)
    /\ err' = st
    /\ err_src' = {K}
    /\ unexamined' = unexamined \cup {K}
    /\ Goto(After(l))

\* err = call(...); checkError(err, ...);  -- the part common to every such pair
Checked(l, op, arg, st) ==
    /\ Issue(op, arg, st)
    /\ err' = st
    /\ err_src' = {K}
    /\ unexamined' = unexamined
    /\ IF checkError(st) THEN Exit(EXIT_FAILURE) ELSE Goto(After(l))

\* ------------------------------------------------ device selection
\* Lines 91-97: err = clGetPlatformIDs(0, NULL, &numPlatforms); checkError;
\* if (numPlatforms == 0) { printf; return EXIT_FAILURE; }
GetNumPlatforms ==
    /\ pc = "get_num_platforms"
    /\ \E st \in Statuses :
        /\ Issue("clGetPlatformIDs", "count", st)
        /\ err' = st
        /\ err_src' = {K}
        /\ unexamined' = unexamined
        /\ numPlatforms' = IF st = CL_SUCCESS THEN Len(gpu) ELSE numPlatforms
        /\ IF checkError(st)
           THEN Exit(EXIT_FAILURE) /\ UNCHANGED out
           ELSE IF NoPlatforms(numPlatforms')
                THEN printf("Found 0 platforms!") /\ Exit(EXIT_FAILURE)
                ELSE Goto(After("get_num_platforms")) /\ UNCHANGED out
    /\ UNCHANGED <<hostVars, result_opencl, result_sequential, i, device_id, obj,
                   built, mem, args, queue, oob_reads, created, enqueued>>

\* Lines 100-102: err = clGetPlatformIDs(numPlatforms, Platform, NULL); checkError
GetPlatformIDs ==
    /\ pc = "get_platform_ids"
    /\ \E st \in Statuses : Checked("get_platform_ids", "clGetPlatformIDs", "ids", st)
    /\ UNCHANGED <<hostVars, result_opencl, result_sequential, numPlatforms, i,
                   device_id, obj, built, mem, args, queue, out, oob_reads,
                   created, enqueued>>

\* Lines 105-112, one iteration of the loop: the query of Platform[i] succeeds
\* exactly when that platform has a GPU device; on success the loop breaks.
SecureGPU ==
    /\ pc = "secure_gpu"
    /\ i < numPlatforms
    /\ LET st == IF gpu[i + 1] THEN CL_SUCCESS ELSE CL_DEVICE_NOT_FOUND
       IN  /\ IssueN("clGetDeviceIDs", "Platform", i, st)
           /\ err' = st
           /\ err_src' = {K}
           /\ unexamined' = unexamined
           /\ device_id' = IF st = CL_SUCCESS THEN i + 1 ELSE device_id
           /\ IF BreakOnSuccess(st)
              THEN i' = i /\ Goto(After("secure_gpu"))
              ELSE i' = i + 1 /\ Goto("secure_gpu")
    /\ UNCHANGED <<hostVars, result_opencl, result_sequential, numPlatforms, obj,
                   built, mem, args, queue, out, oob_reads, created, enqueued>>

\* Line 105: the loop condition i < numPlatforms is false.
SecureGPUDone ==
    /\ pc = "secure_gpu"
    /\ ~(i < numPlatforms)
    /\ Goto(After("secure_gpu"))
    /\ UNCHANGED <<hostVars, result_opencl, result_sequential, err, numPlatforms,
                   i, device_id, obj, built, mem, args, queue, log, out, err_src,
                   unexamined, oob_reads, created, enqueued>>

\* Lines 114-115: if (device_id == NULL) checkError(err, "Finding a device");
CheckDevice ==
    /\ pc = "check_device"
    /\ IF DeviceMissing(device_id) /\ checkError(err)
       THEN Exit(EXIT_FAILURE)
       ELSE Goto(After("check_device"))
    /\ UNCHANGED <<hostVars, result_opencl, result_sequential, err, numPlatforms,
                   i, device_id, obj, built, mem, args, queue, log, out, err_src,
                   unexamined, oob_reads, created, enqueued>>

\* Lines 117-130 and 133-141: err = clGetDeviceInfo(...); if (err != CL_SUCCESS)
\* { printf; return EXIT_FAILURE; } printf(...);
GetDeviceInfo(l, what, failure, line) ==
    /\ pc = l
    /\ \E st \in Statuses :
        /\ Issue("clGetDeviceInfo", what, st)
        /\ err' = st
        /\ err_src' = {K}
        /\ unexamined' = unexamined
        /\ IF st /= CL_SUCCESS
           THEN printf(failure) /\ Exit(EXIT_FAILURE)
           ELSE printf(line) /\ Goto(After(l))
    /\ UNCHANGED <<hostVars, result_opencl, result_sequential, numPlatforms, i,
                   device_id, obj, built, mem, args, queue, oob_reads, created,
                   enqueued>>

GetDeviceType ==
    GetDeviceInfo("get_device_type", "CL_DEVICE_TYPE",
                  "Error: Failed to access device type information!", "Device type")

GetCompUnits ==
    GetDeviceInfo("get_comp_units", "CL_DEVICE_MAX_COMPUTE_UNITS",
                  "Error: Failed to access device number of compute units !",
                  "Total compute units")

\* ------------------------------------- context, queue, program, kernel
\* x = clCreate...(..., &err); checkError(err, ...): the object exists on success.
Create(l, op, o) ==
    /\ pc = l
    /\ \E st \in Statuses :
        /\ Checked(l, op, o, st)
        /\ created' = Append(created, Creation(o, st))
        /\ obj' = IF st = CL_SUCCESS THEN [obj EXCEPT ![o] = "live"] ELSE obj
        /\ mem' = IF st = CL_SUCCESS /\ o \in Buffers
                  THEN [mem EXCEPT ![o] =
                          [k \in 1..(BufferSize \div sizeof_int)
                              |-> UninitializedWord]]
                  ELSE mem
    /\ UNCHANGED <<hostVars, result_opencl, result_sequential, numPlatforms, i,
                   device_id, built, args, queue, out, oob_reads, enqueued>>

\* Lines 143-145
CreateContext == Create("create_context", "clCreateContext", "context")
\* Lines 147-149
CreateCommandQueue == Create("create_queue", "clCreateCommandQueue", "commands")
\* Lines 151-153
CreateProgram == Create("create_program", "clCreateProgramWithSource", "program")

\* Lines 155-166: err = clBuildProgram(...); on failure print the error, call
\* clGetProgramBuildInfo into char buffer[2048] (its status is not looked at),
\* printf("%s\n", buffer) and return EXIT_FAILURE.  When the query failed the
\* buffer was never written: printf reads uninitialized chars, and either
\* prints what it finds or the run is killed (SIGSEGV, reported as 128 + 11).
BuildProgram ==
    /\ pc = "build_program"
    /\ \E st \in Statuses :
        /\ err' = st
        /\ err_src' = {K}
        /\ IF BuildFailed(st)
           THEN \E st2 \in Statuses :
                /\ log' = log \o << Entry("clBuildProgram", "program", st),
                                    Entry("clGetProgramBuildInfo", "log", st2) >>
                /\ unexamined' = unexamined \cup {K + 1}
                /\ built' = built
                /\ \/ /\ out' = out \o
                            << Line("Error: Failed to build program executable!", <<>>),
                               Line(IF st2 = CL_SUCCESS THEN "build log"
                                    ELSE "uninitialized buffer", <<>>) >>
                      /\ Exit(EXIT_FAILURE)
                   \/ /\ st2 /= CL_SUCCESS
                      /\ out' = Append(out,
                             Line("Error: Failed to build program executable!", <<>>))
                      /\ Exit(128 + 11)
           ELSE /\ Issue("clBuildProgram", "program", st)
                /\ unexamined' = unexamined
                /\ built' = (st = CL_SUCCESS)
                /\ Goto(After("build_program"))
                /\ UNCHANGED out
    /\ UNCHANGED <<hostVars, result_opencl, result_sequential, numPlatforms, i,
                   device_id, obj, mem, args, queue, oob_reads, created, enqueued>>

\* Lines 168-170
CreateKernel == Create("create_kernel", "clCreateKernel", "kernel_cuboid_area")

\* Lines 172-183
CreateBufferA == Create("create_d_a", "clCreateBuffer", "d_a")
CreateBufferB == Create("create_d_b", "clCreateBuffer", "d_b")
CreateBufferC == Create("create_d_c", "clCreateBuffer", "d_c")
CreateBufferResult == Create("create_d_result", "clCreateBuffer", "d_result")

\* ------------------------------------------------- the command queue
\* The ints a transfer of `bytes` bytes moves out of (or into) an int array.
Transfer(array, bytes) == [k \in 1..(bytes \div sizeof_int) |-> array[k]]

\* One work-item per global id: result[i] = cuboid_area(a[i], b[i], c[i]).
RunKernel(m, cmd) ==
    [m EXCEPT ![cmd.r] =
        [k \in 1..Len(m[cmd.r]) |->
            IF k <= cmd.global
            THEN cuboid_area(m[cmd.a][k], m[cmd.b][k], m[cmd.c][k])
            ELSE m[cmd.r][k]]]

\* The device memory after the device has executed one command.
Exec(m, cmd) ==
    IF cmd.kind = "write" THEN [m EXCEPT ![cmd.buf] = cmd.data]
    ELSE RunKernel(m, cmd)

\* The device memory after every command of q has retired, in enqueue order.
RECURSIVE Drain(_, _)
Drain(m, q) == IF q = <<>> THEN m ELSE Drain(Exec(m, Head(q)), Tail(q))

\* The device executes the oldest enqueued command, whenever it gets to it.
DeviceExec ==
    /\ pc /= "exited"
    /\ queue /= <<>>
    /\ mem' = Exec(mem, Head(queue))
    /\ queue' = Tail(queue)
    /\ UNCHANGED <<hostVars, result_opencl, result_sequential, pc, exit_code,
                   err, numPlatforms, i, device_id, obj, built, args, log, out,
                   err_src, unexamined, oob_reads, created, enqueued>>

\* ------------------------------------------------------------ uploads
\* err = clEnqueueWriteBuffer(commands, buf, CL_TRUE, 0, sizeof(float) * LENGTH,
\*                            host, 0, NULL, NULL); checkError(err, ...);
\* A blocking write returns once the queue has retired it.
WriteBuffer(l, buf, host) ==
    /\ pc = l
    /\ \E st \in Statuses :
        /\ Checked(l, "clEnqueueWriteBuffer", buf, st)
        /\ Enqueue("write", buf, BufferSize, HostBytes(host), st)
        /\ LET cmd == [kind |-> "write", buf |-> buf,
                       data |-> Transfer(host, BufferSize)]
           IN  IF st /= CL_SUCCESS THEN UNCHANGED <<mem, queue>>
               ELSE IF WriteIsBlocking
               THEN mem' = Exec(Drain(mem, queue), cmd) /\ queue' = <<>>
               ELSE mem' = mem /\ queue' = Append(queue, cmd)
    /\ UNCHANGED <<hostVars, result_opencl, result_sequential, numPlatforms, i,
                   device_id, obj, built, args, out, oob_reads, created>>

\* Lines 185-193
WriteA == WriteBuffer("write_a", "d_a", source_a)
WriteB == WriteBuffer("write_b", "d_b", source_b)
WriteC == WriteBuffer("write_c", "d_c", source_c)

\* ------------------------------------------------- argument bindings
\* Lines 196-199: err = clSetKernelArg(k, 0, ...); err |= clSetKernelArg(k, n, ...);
\* no test of err between the four calls.
SetKernelArg(l, n, buf) ==
    /\ pc = l
    /\ \E st \in Statuses :
        /\ IssueN("clSetKernelArg", buf, n, st)
        /\ err' = IF n = 0 THEN st ELSE BitOr(err, st)
        /\ err_src' = IF n = 0 THEN {K} ELSE err_src \cup {K}
        /\ unexamined' = unexamined \cup {K}
        /\ args' = IF st = CL_SUCCESS THEN [args EXCEPT ![n] = buf] ELSE args
    /\ Goto(After(l))
    /\ UNCHANGED <<hostVars, result_opencl, result_sequential, numPlatforms, i,
                   device_id, obj, built, mem, queue, out, oob_reads, created,
                   enqueued>>

SetArg0 == SetKernelArg("set_arg_0", 0, "d_a")
SetArg1 == SetKernelArg("set_arg_1", 1, "d_b")
SetArg2 == SetKernelArg("set_arg_2", 2, "d_c")
SetArg3 == SetKernelArg("set_arg_3", 3, "d_result")

\* Line 200: checkError(err, "Setting kernel arguments");
CheckArgs ==
    /\ pc = "check_args"
    /\ unexamined' = unexamined \ err_src
    /\ IF checkError(err) THEN Exit(EXIT_FAILURE) ELSE Goto(After("check_args"))
    /\ UNCHANGED <<hostVars, result_opencl, result_sequential, err, numPlatforms,
                   i, device_id, obj, built, mem, args, queue, log, out, err_src,
                   oob_reads, created, enqueued>>

\* ------------------------------------------------- launch and timing
\* A call of wtime(): an entry of the history, no status.
Timer(l, which) ==
    /\ pc = l
    /\ Issue("wtime", which, CL_SUCCESS)
    /\ Goto(After(l))

\* Line 202: double cl_time = wtime();
StartTimer ==
    /\ Timer("start_timer", "cl_start")
    /\ UNCHANGED <<hostVars, result_opencl, result_sequential, err, numPlatforms,
                   i, device_id, obj, built, mem, args, queue, out, err_src,
                   unexamined, oob_reads, created, enqueued>>

\* Lines 204-208: global = LENGTH; err = clEnqueueNDRangeKernel(...); checkError.
\* The launch is refused while an argument is unbound.
EnqueueKernel ==
    /\ pc = "enqueue_kernel"
    /\ \E st \in Statuses \cup {CL_INVALID_KERNEL_ARGS} :
        /\ (\E n \in 0..3 : args[n] = "unset") <=> (st = CL_INVALID_KERNEL_ARGS)
        /\ IssueN("clEnqueueNDRangeKernel", "kernel_cuboid_area", LENGTH, st)
        /\ Enqueue("kernel", "kernel_cuboid_area", 0, 0, st)
        /\ err' = st
        /\ err_src' = {K}
        /\ unexamined' = unexamined
        /\ IF checkError(st) THEN Exit(EXIT_FAILURE)
                             ELSE Goto(After("enqueue_kernel"))
        /\ queue' = IF st = CL_SUCCESS
                    THEN Append(queue, [kind |-> "kernel", a |-> args[0],
                                        b |-> args[1], c |-> args[2], r |-> args[3],
                                        global |-> LENGTH])
                    ELSE queue
    /\ UNCHANGED <<hostVars, result_opencl, result_sequential, numPlatforms, i,
                   device_id, obj, built, mem, args, out, oob_reads, created>>

\* Lines 210-212: err = clFinish(commands); checkError. On success every
\* command enqueued before has retired.
Finish ==
    /\ pc = "finish"
    /\ \E st \in Statuses :
        /\ Checked("finish", "clFinish", "commands", st)
        /\ IF st = CL_SUCCESS
           THEN mem' = Drain(mem, queue) /\ queue' = <<>>
           ELSE UNCHANGED <<mem, queue>>
    /\ UNCHANGED <<hostVars, result_opencl, result_sequential, numPlatforms, i,
                   device_id, obj, built, args, out, oob_reads, created, enqueued>>

\* Lines 214-215: cl_time = wtime() - cl_time; printf(...);
StopTimer ==
    /\ Timer("stop_timer", "cl_stop")
    /\ printf("The OpenCL kernel ran in")
    /\ UNCHANGED <<hostVars, result_opencl, result_sequential, err, numPlatforms,
                   i, device_id, obj, built, mem, args, queue, err_src,
                   unexamined, oob_reads, created, enqueued>>

\* Lines 217-223: the blocking readback of d_result; on failure printf, exit(1).
ReadResult ==
    /\ pc = "read_result"
    /\ \E st \in Statuses :
        /\ Issue("clEnqueueReadBuffer", "d_result", st)
        /\ Enqueue("read", "d_result", BufferSize, HostBytes(result_opencl), st)
        /\ err' = st
        /\ err_src' = {K}
        /\ unexamined' = unexamined
        /\ IF st = CL_SUCCESS
           THEN /\ mem' = Drain(mem, queue)
                /\ queue' = <<>>
                /\ result_opencl' = Transfer(mem'["d_result"], BufferSize)
           ELSE UNCHANGED <<mem, queue, result_opencl>>
        /\ IF ReadFailed(st)
           THEN printf("Error: Failed to read output array!") /\ Exit(1)
           ELSE Goto(After("read_result")) /\ UNCHANGED out
    /\ UNCHANGED <<hostVars, result_sequential, numPlatforms, i, device_id, obj,
                   built, args, oob_reads, created>>

\* ------------------------------------------ reference and reporting
\* Lines 225-231: the sequential loop over every index, timed.
Sequential ==
    /\ pc = "sequential"
    /\ log' = log \o << Entry("wtime", "seq_start", CL_SUCCESS),
                        Entry("wtime", "seq_stop", CL_SUCCESS) >>
    /\ result_sequential' =
           [k \in 1..LENGTH |->
               sequential_area(source_a[k], source_b[k], source_c[k])]
    /\ printf("The sequential code ran in")
    /\ Goto(After("sequential"))
    /\ UNCHANGED <<hostVars, result_opencl, err, numPlatforms, i, device_id, obj,
                   built, mem, args, queue, err_src, unexamined, oob_reads,
                   created, enqueued>>

\* Lines 233-235: double ratio = seq_time / cl_time; printf(...);
PrintRatio ==
    /\ pc = "print_ratio"
    /\ printf("The sequential time is")
    /\ Goto(After("print_ratio"))
    /\ UNCHANGED <<hostVars, result_opencl, result_sequential, err, numPlatforms,
                   i, device_id, obj, built, mem, args, queue, log, err_src,
                   unexamined, oob_reads, created, enqueued>>

\* The tuples the print loop reads inside the arrays.
Tuples ==
    [k \in 1..(IF LENGTH < PRINT_COUNT THEN LENGTH ELSE PRINT_COUNT) |->
        Line("tuple", <<source_a[k], source_b[k], source_c[k],
                        result_opencl[k], result_sequential[k]>>)]

\* The tuples the print loop prints from past the end of the arrays, when it
\* gets through n such iterations: the values are whatever lies there.
PastTheEnd(n) == [k \in 1..n |-> Line("tuple past the end", <<>>)]

\* Lines 237-247: for (i = 0; i < 100; i++) printf(tuple i);
\* printf("... %d more items", LENGTH - 100).  An iteration with i >= LENGTH
\* reads past the end of the five arrays: the run either goes on with whatever
\* it read or is killed (SIGSEGV, reported as 128 + 11).
PrintResults ==
    /\ pc = "print_results"
    /\ oob_reads' = IF LENGTH < PRINT_COUNT THEN PRINT_COUNT - LENGTH ELSE 0
    /\ \/ /\ out' = (out \o Tuples \o PastTheEnd(oob_reads'))
                      \o << Line("more items", <<LENGTH - PRINT_COUNT>>) >>
          /\ Goto(After("print_results"))
       \/ /\ oob_reads' > 0
          /\ out' = out \o Tuples
          /\ Exit(128 + 11)
    /\ UNCHANGED <<hostVars, result_opencl, result_sequential, err, numPlatforms,
                   i, device_id, obj, built, mem, args, queue, log, err_src,
                   unexamined, created, enqueued>>

\* ------------------------------------------------------------ teardown
\* The releases that have failed so far.
ReleaseFailures ==
    Cardinality({k \in 1..Len(log) : log[k].op \in ReleaseOps /\ ~log[k].ok})

\* clRelease...(x); the returned status is discarded.
Release(l, op, o) ==
    /\ pc = l
    /\ \E st \in Statuses :
        /\ st /= CL_SUCCESS => ReleaseFailures < MaxReleaseFailures
        /\ Issue(op, o, st)
        /\ unexamined' = unexamined \cup {K}
        /\ obj' = IF st = CL_SUCCESS /\ obj[o] = "live"
                  THEN [obj EXCEPT ![o] = "released"] ELSE obj
    /\ Goto(After(l))
    /\ UNCHANGED <<hostVars, result_opencl, result_sequential, err, numPlatforms,
                   i, device_id, built, mem, args, queue, out, err_src,
                   oob_reads, created, enqueued>>

\* Lines 249-256
ReleaseA == Release("release_d_a", "clReleaseMemObject", "d_a")
ReleaseB == Release("release_d_b", "clReleaseMemObject", "d_b")
ReleaseC == Release("release_d_c", "clReleaseMemObject", "d_c")
ReleaseProgram == Release("release_program", "clReleaseProgram", "program")
ReleaseKernel == Release("release_kernel", "clReleaseKernel", "kernel_cuboid_area")
ReleaseCommandQueue == Release("release_commands", "clReleaseCommandQueue", "commands")
ReleaseContext == Release("release_context", "clReleaseContext", "context")

\* Lines 258-266: free the host arrays, printf("\n"), return 0.
Return ==
    /\ pc = "return"
    /\ printf("")
    /\ Exit(EXIT_SUCCESS)
    /\ UNCHANGED <<hostVars, result_opencl, result_sequential, err, numPlatforms,
                   i, device_id, obj, built, mem, args, queue, log, err_src,
                   unexamined, oob_reads, created, enqueued>>

\* ------------------------------------------------------ specification
Next ==
    \/ GetNumPlatforms \/ GetPlatformIDs \/ SecureGPU \/ SecureGPUDone
    \/ CheckDevice \/ GetDeviceType \/ GetCompUnits
    \/ CreateContext \/ CreateCommandQueue \/ CreateProgram \/ BuildProgram
    \/ CreateKernel
    \/ CreateBufferA \/ CreateBufferB \/ CreateBufferC \/ CreateBufferResult
    \/ WriteA \/ WriteB \/ WriteC
    \/ SetArg0 \/ SetArg1 \/ SetArg2 \/ SetArg3 \/ CheckArgs
    \/ StartTimer \/ EnqueueKernel \/ DeviceExec \/ Finish \/ StopTimer
    \/ ReadResult \/ Sequential \/ PrintRatio \/ PrintResults
    \/ ReleaseA \/ ReleaseB \/ ReleaseC \/ ReleaseProgram \/ ReleaseKernel
    \/ ReleaseCommandQueue \/ ReleaseContext \/ Return

Spec == Init /\ [][Next]_vars

\* ------------------------------------------------- history vocabulary
\* The positions of the history holding a call of op.
Calls(op) == {k \in 1..Len(log) : log[k].op = op}

\* The positions holding a call of op on the object (or query) arg.
CallsOn(op, arg) == {k \in Calls(op) : log[k].arg = arg}

\* The positions holding a call of the device API.
DeviceCalls == {k \in 1..Len(log) : log[k].op \in DeviceOps}

\* The positions holding a release.
Releases == {k \in 1..Len(log) : log[k].op \in ReleaseOps}

Exited == pc = "exited"
Succeeded == exit_code = {EXIT_SUCCESS}
\* The process has ended with a non-zero status.
Failed == exit_code /= {} /\ EXIT_SUCCESS \notin exit_code

\* ------------------------------------------------------------ claims

\* C1: once both compute paths have run, the accelerator result and the
\* sequential result are equal at every index 0..N-1, and both equal
\* 2*(a[i]*b[i] + b[i]*c[i] + a[i]*c[i]).
C1_ResultsAgree ==
    CallsOn("wtime", "seq_stop") /= {} =>
        \A k \in 1..LENGTH :
            /\ result_opencl[k] = result_sequential[k]
            /\ result_opencl[k] =
                   2 * (source_a[k] * source_b[k] + source_b[k] * source_c[k]
                        + source_a[k] * source_c[k])

\* A run in which every device call succeeded, on the scenario a=[1,2,3,4],
\* b=[1,1,1,1], c=[2,2,2,2], has ended with [10,16,22,28] on both paths.
C1_Witness ==
    /\ Succeeded
    /\ \A k \in DeviceCalls : log[k].ok
    /\ source_a = <<1, 2, 3, 4>> /\ source_b = <<1, 1, 1, 1>>
    /\ source_c = <<2, 2, 2, 2>>
    /\ result_opencl = <<10, 16, 22, 28>>
    /\ result_sequential = <<10, 16, 22, 28>>

\* The place of an object in the creation-dependency order: buffers and the
\* kernel, then the program, then the command queue, then the context.
TeardownRank(o) ==
    IF o \in Buffers \cup {"kernel_cuboid_area"} THEN 1
    ELSE IF o = "program" THEN 2
    ELSE IF o = "commands" THEN 3
    ELSE 4

\* C2: in a successful run the releases are issued in creation-dependency order: every buffer
\* release and the kernel release before the program release, the program
\* release before the command-queue release, and that before the context
\* release.
C2_TeardownOrder ==
    Succeeded =>
        \A j \in Releases : \A k \in Releases :
            TeardownRank(log[j].arg) < TeardownRank(log[k].arg) => j < k

\* C4: when a run exits successfully, every device object it created has been
\* released exactly once.
C4_ReleasedOnce ==
    Succeeded =>
        \A o \in Objects :
            Cardinality({k \in Releases : log[k].arg = o}) = 1

\* C3 (as claimed): every device-API call is made with the status of every
\* earlier call already examined, and a call that fails is the last device
\* call of the run, which then ends with a failure exit code.
C3_EveryStatusChecked ==
    \A k \in DeviceCalls :
        /\ log[k].pending = {}
        /\ ~log[k].ok =>
              /\ \A j \in DeviceCalls : j <= k
              /\ Exited => ~Succeeded

\* The calls whose status main() does not test right after the call.
LaxOps == {"clGetDeviceIDs", "clSetKernelArg", "clGetProgramBuildInfo"}
              \cup ReleaseOps

StrictOps == DeviceOps \ LaxOps

BindingLabels == {"set_arg_0", "set_arg_1", "set_arg_2", "set_arg_3", "check_args"}

\* C3 (amended): every call other than the per-platform device query, the four
\* argument bindings, the build-log query and the releases has its status
\* examined before the next device call, and its failure ends the run with a
\* non-zero exit status, followed by no device call but the build-log query
\* after a failed build.  A failed device query is examined at once and is followed
\* by the query of the next platform, or by the failure exit when it was the
\* last one.  The binding statuses are examined together after the fourth
\* binding and before any other device call; a failed binding is followed only
\* by further bindings and the failure exit.  The statuses of the build-log
\* query and of the releases are never examined.
C3_StatusChecks ==
    \A k \in DeviceCalls :
        /\ \A j \in log[k].pending :
              /\ log[j].op \in LaxOps \ {"clGetDeviceIDs"}
              /\ log[j].op = "clSetKernelArg" => log[k].op = "clSetKernelArg"
        /\ (log[k].op \in StrictOps /\ ~log[k].ok) =>
              /\ Exited /\ Failed
              /\ log[k].op /= "clBuildProgram" => exit_code = {EXIT_FAILURE}
              /\ \A j \in DeviceCalls :
                    j > k => /\ log[k].op = "clBuildProgram"
                             /\ j = k + 1
                             /\ log[j].op = "clGetProgramBuildInfo"
        /\ (log[k].op = "clGetDeviceIDs" /\ ~log[k].ok) =>
              /\ k < Len(log) => /\ log[k + 1].op = "clGetDeviceIDs"
                                 /\ log[k + 1].n = log[k].n + 1
              /\ (k = Len(log) /\ Exited) => exit_code = {EXIT_FAILURE}
        /\ (log[k].op = "clSetKernelArg" /\ ~log[k].ok) =>
              /\ \A j \in DeviceCalls : j > k => log[j].op = "clSetKernelArg"
              /\ pc \notin BindingLabels => (Exited /\ exit_code = {EXIT_FAILURE})
        /\ log[k].op \in ReleaseOps \cup {"clGetProgramBuildInfo"} =>
              k \in unexamined

\* A run that went past a platform without a GPU, found one on the next, and
\* ended with a failure exit code on a failed upload.
C3_Witness ==
    /\ Exited /\ exit_code = {EXIT_FAILURE}
    /\ \E k \in Calls("clGetDeviceIDs") : ~log[k].ok
    /\ \E k \in Calls("clEnqueueWriteBuffer") : ~log[k].ok /\ k = Len(log)

\* The uploads and the launch that succeeded.
Uploaded(b) == {k \in CallsOn("clEnqueueWriteBuffer", b) : log[k].ok}
Launches == Calls("clEnqueueNDRangeKernel")

\* C5: when the launch is enqueued each input buffer has been fully uploaded
\* by a write that returned successfully; the readback is issued only after a
\* successful wait for completion that follows the launch; no readback is
\* issued between the uploads and that wait.
C5_TransferOrder ==
    /\ \A l \in Launches :
          /\ \A b \in {"d_a", "d_b", "d_c"} : \E w \in Uploaded(b) : w < l
          /\ mem["d_a"] = source_a /\ mem["d_b"] = source_b /\ mem["d_c"] = source_c
    /\ \A r \in Calls("clEnqueueReadBuffer") :
          \E f \in Calls("clFinish") :
              /\ log[f].ok /\ f < r
              /\ \E l \in Launches : log[l].ok /\ l < f
              /\ \A w \in Calls("clEnqueueWriteBuffer") : w < f

\* The readback has been issued after the launch and the wait.
C5_Witness ==
    /\ \E r \in Calls("clEnqueueReadBuffer") : log[r].ok
    /\ \E l \in Launches : log[l].ok
    /\ result_opencl /= calloc(LENGTH)

\* The platform enumeration reports zero platforms.
ZeroPlatforms == Len(gpu) = 0

\* C6: with zero platforms the run ends with a failure exit code right after
\* the platform count query: no device handle is selected and no device
\* query, context, queue, program, buffer or kernel operation is performed.
C6_NoPlatform ==
    ZeroPlatforms =>
        /\ device_id = NULL
        /\ \A o \in Objects : obj[o] = "none"
        /\ Len(log) <= 1
        /\ \A k \in 1..Len(log) :
              log[k].op = "clGetPlatformIDs" /\ log[k].arg = "count"
        /\ pc \in {"get_num_platforms", "exited"}
        /\ Exited => exit_code = {EXIT_FAILURE}

\* The count query succeeded, reported zero, and the run has ended.
C6_Witness ==
    /\ ZeroPlatforms /\ Exited
    /\ Len(log) = 1 /\ log[1].ok /\ numPlatforms = 0
    /\ out = << Line("Found 0 platforms!", <<>>) >>

\* No installed platform has a GPU device (and there is at least one platform).
NoGPU == Len(gpu) >= 1 /\ \A p \in 1..Len(gpu) : ~gpu[p]

\* The device queries of the platform loop, in the order they were made.
Queries == SelectSeq(log, LAMBDA e : e.op = "clGetDeviceIDs")

SelectionLabels == {"get_num_platforms", "get_platform_ids", "secure_gpu",
                    "check_device"}

\* C7: when no platform has a GPU device, the platform loop queries the
\* platforms in enumeration order, each once, and having queried them all the
\* run ends with a failure exit code: no device handle is held and no
\* device-info query, context or later call is made.
C7_NoMatchingDevice ==
    NoGPU =>
        /\ Len(Queries) <= Len(gpu)
        /\ \A q \in 1..Len(Queries) : Queries[q].n = q - 1 /\ ~Queries[q].ok
        /\ device_id = NULL
        /\ pc \in SelectionLabels \cup {"exited"}
        /\ pc = "check_device" => Len(Queries) = Len(gpu)
        /\ Exited =>
              /\ exit_code = {EXIT_FAILURE}
              /\ (Len(log) >= 2 /\ log[2].ok) => Len(Queries) = Len(gpu)
        /\ \A k \in DeviceCalls : log[k].op \in {"clGetPlatformIDs", "clGetDeviceIDs"}

\* Two platforms, neither with a GPU: both were queried and the run has ended.
C7_Witness ==
    /\ NoGPU /\ Len(gpu) = 2 /\ Exited
    /\ Len(Queries) = 2 /\ Queries[1].n = 0 /\ Queries[2].n = 1

\* The bindings made so far, by position.
Bindings(n) == {k \in Calls("clSetKernelArg") : log[k].n = n}

\* C8: the launch is enqueued only when each of the four bindings (positions
\* 0..3: d_a, d_b, d_c, d_result) was made and succeeded; a run in which any
\* binding failed, whatever the others returned, makes no launch and ends with
\* a failure exit code.
C8_BindingFailureAborts ==
    /\ \A l \in Launches :
          /\ \A n \in 0..3 : \E k \in Bindings(n) : k < l /\ log[k].ok
          /\ \A k \in Calls("clSetKernelArg") : log[k].ok
          /\ args = [n \in 0..3 |-> <<"d_a", "d_b", "d_c", "d_result">>[n + 1]]
    /\ (\E k \in Calls("clSetKernelArg") : ~log[k].ok) =>
          /\ Launches = {}
          /\ pc \in BindingLabels \cup {"exited"}
          /\ Exited => exit_code = {EXIT_FAILURE}

\* The first binding failed, the three after it succeeded, and the run ended
\* without a launch.
C8_Witness ==
    /\ Exited /\ Launches = {}
    /\ \E k \in Bindings(0) : ~log[k].ok
    /\ \A n \in 1..3 : \E k \in Bindings(n) : log[k].ok

\* C9: a failed build is terminal: the run has printed the diagnostic log and
\* ended with a failure exit status, no kernel object and no buffer exists and
\* no launch is made; a kernel is created only after a build that succeeded.
C9_BuildFailureTerminal ==
    /\ \A k \in Calls("clBuildProgram") :
          ~log[k].ok =>
              /\ Exited /\ Failed
              /\ \E q \in 1..Len(out) : out[q] = Line("build log", <<>>)
              /\ Calls("clCreateKernel") = {}
              /\ Calls("clCreateBuffer") = {}
              /\ Launches = {}
              /\ \A o \in Buffers \cup {"kernel_cuboid_area"} : obj[o] = "none"
    /\ \A c \in Calls("clCreateKernel") :
          \E k \in Calls("clBuildProgram") : k < c /\ log[k].ok

\* The part of C9 that does not depend on what the log print shows: a failed
\* build ends the run with a non-zero status before any kernel, buffer or
\* launch, and a kernel is created only after a successful build.
BuildFailureEndsRun ==
    /\ \A k \in Calls("clBuildProgram") :
          ~log[k].ok =>
              /\ Exited /\ Failed
              /\ Calls("clCreateKernel") = {}
              /\ Calls("clCreateBuffer") = {}
              /\ Launches = {}
              /\ \A o \in Buffers \cup {"kernel_cuboid_area"} : obj[o] = "none"
              /\ ~built
    /\ \A c \in Calls("clCreateKernel") :
          \E k \in Calls("clBuildProgram") : k < c /\ log[k].ok
    /\ obj["kernel_cuboid_area"] /= "none" => built

\* C10: the timer is started after the three uploads, the build and the four
\* bindings have completed, and the launch is the very next call; it is
\* stopped right after the wait for completion has returned; the readback is
\* issued after the stop, and the only calls between start and stop are the
\* launch and the wait.
C10_TimedInterval ==
    /\ \A s \in CallsOn("wtime", "cl_start") :
          /\ \A b \in {"d_a", "d_b", "d_c"} : \E w \in Uploaded(b) : w < s
          /\ \E k \in Calls("clBuildProgram") : k < s /\ log[k].ok
          /\ \A n \in 0..3 : \E k \in Bindings(n) : k < s /\ log[k].ok
          /\ s < Len(log) => log[s + 1].op = "clEnqueueNDRangeKernel"
          /\ \A k \in DeviceCalls :
                k > s => log[k].op \notin {"clEnqueueWriteBuffer", "clBuildProgram",
                                           "clSetKernelArg"}
    /\ \A t \in CallsOn("wtime", "cl_stop") :
          /\ t >= 4
          /\ log[t - 1].op = "clFinish" /\ log[t - 1].ok
          /\ log[t - 2].op = "clEnqueueNDRangeKernel" /\ log[t - 2].ok
          /\ log[t - 3].op = "wtime" /\ log[t - 3].arg = "cl_start"
    /\ \A r \in Calls("clEnqueueReadBuffer") :
          \E t \in CallsOn("wtime", "cl_stop") : t < r

\* The timer was started and stopped and the readback has been issued.
C10_Witness ==
    /\ CallsOn("wtime", "cl_start") /= {}
    /\ CallsOn("wtime", "cl_stop") /= {}
    /\ Calls("clEnqueueReadBuffer") /= {}

\* ---------------------------------------------------------------- C11
\* A step of the pipeline has failed: a call whose failure is fatal, or a
\* binding, returned a failure; or the selection found no platform or no
\* device.  (A failed query of one platform is made up for by a later
\* platform; the releases and the build-log query follow the pipeline.)
StepFailed ==
    \/ \E k \in DeviceCalls : log[k].op \in StrictOps /\ ~log[k].ok
    \/ \E k \in Calls("clSetKernelArg") : ~log[k].ok
    \/ ZeroPlatforms /\ (\E k \in CallsOn("clGetPlatformIDs", "count") : log[k].ok)
    \/ NoGPU /\ Len(Queries) = Len(gpu)

\* The calls of the device API made so far.
OpsCalled == {log[k].op : k \in 1..Len(log)}

\* The last step of the pipeline, the report, has been printed to its end.
Reported == \E n \in 1..Len(out) : out[n].text = "more items"

\* Every step of the pipeline has been made and has succeeded.
PipelineSucceeded == Reported /\ ~StepFailed

\* C11: the exit code is 0 exactly when every step of the pipeline succeeded;
\* it is non-zero when zero platforms are found, when the device-type query
\* fails, when the compute-unit query fails, when the build fails and when
\* the readback fails.
C11_ExitCode ==
    /\ Exited => (Succeeded <=> PipelineSucceeded)
    /\ Succeeded =>
          /\ device_id /= NULL
          /\ StrictOps \subseteq OpsCalled
          /\ \A k \in 1..Len(log) : log[k].op \in StrictOps => log[k].ok
          /\ \A n \in 0..3 : \E k \in Bindings(n) : log[k].ok
    /\ (ZeroPlatforms /\ \E k \in CallsOn("clGetPlatformIDs", "count") : log[k].ok)
          => Exited /\ Failed
    /\ \A k \in Calls("clGetDeviceInfo") \cup Calls("clBuildProgram")
                  \cup Calls("clEnqueueReadBuffer") :
          ~log[k].ok => Exited /\ Failed

\* A run of more elements than the report shows has ended with exit code 0.
C11_Witness == Succeeded /\ PipelineSucceeded /\ LENGTH > PRINT_COUNT

\* ---------------------------------------------------------------- C12
\* The tuple lines of the report, whatever memory they were read from.
TupleLines == {n \in 1..Len(out) : out[n].text \in {"tuple", "tuple past the end"}}

Min(a, b) == IF a < b THEN a ELSE b

\* The report prints min(N, 100) tuples, each read inside the arrays, and
\* then N minus the number of tuples printed, which is not negative.
PrintIsBounded ==
    /\ oob_reads = 0
    /\ Cardinality(TupleLines) <= Min(LENGTH, PRINT_COUNT)
    /\ \A n \in TupleLines :
          \E k \in 1..LENGTH :
              out[n].vals = <<source_a[k], source_b[k], source_c[k],
                              result_opencl[k], result_sequential[k]>>
    /\ \A n \in 1..Len(out) :
          out[n].text = "more items" =>
              /\ Cardinality(TupleLines) = Min(LENGTH, PRINT_COUNT)
              /\ out[n].vals = <<LENGTH - Cardinality(TupleLines)>>
              /\ out[n].vals[1] >= 0

PrintLoopInRange == LENGTH >= PRINT_COUNT => PrintIsBounded

\* ---------------------------------------------------------------- C13
\* The buffers allocated so far (creations that succeeded) with access flag f.
Allocated(f) ==
    {j \in 1..Len(created) :
        created[j].obj \in Buffers /\ created[j].ok /\ created[j].flags = f}

\* The transfers enqueued so far: uploads and readbacks.
Transfers == {n \in 1..Len(enqueued) : enqueued[n].kind \in {"write", "read"}}

\* C13: three read-only input buffers and one write-only output buffer are
\* allocated, no buffer twice, each of element count times the size of a host
\* array element bytes; all four exist once a command is enqueued; every
\* upload and the readback moves exactly the allocated size of its buffer,
\* which is the byte size of the host array on the other side.
C13_BufferSizes ==
    /\ \A j \in 1..Len(created) :
          created[j].obj \in Buffers =>
              /\ created[j].bytes = LENGTH * sizeof_int
              /\ created[j].flags = IF created[j].obj = "d_result"
                                    THEN "CL_MEM_WRITE_ONLY" ELSE "CL_MEM_READ_ONLY"
              /\ \A m \in 1..Len(created) :
                    created[m].obj = created[j].obj => m = j
    /\ Cardinality(Allocated("CL_MEM_READ_ONLY")) <= 3
    /\ Cardinality(Allocated("CL_MEM_WRITE_ONLY")) <= 1
    /\ enqueued /= <<>> =>
          /\ Cardinality(Allocated("CL_MEM_READ_ONLY")) = 3
          /\ Cardinality(Allocated("CL_MEM_WRITE_ONLY")) = 1
    /\ \A n \in Transfers :
          /\ \E j \in 1..Len(created) :
                /\ created[j].obj = enqueued[n].what /\ created[j].ok
                /\ enqueued[n].bytes = created[j].bytes
                /\ (enqueued[n].kind = "write") =
                       (created[j].flags = "CL_MEM_READ_ONLY")
          /\ enqueued[n].bytes = enqueued[n].host_bytes
          /\ enqueued[n].host_bytes = LENGTH * sizeof_int
    /\ \A b \in Buffers :
          mem[b] /= <<>> => Len(mem[b]) * sizeof_int = LENGTH * sizeof_int

\* The three uploads and the readback of the four-element scenario were made.
C13_Witness ==
    /\ LENGTH = Len(ScenarioA)
    /\ Cardinality(Transfers) = 4
    /\ \A n \in Transfers : enqueued[n].ok /\ enqueued[n].bytes = 16

\* ---------------------------------------------------------------- C14
\* The lowest-index platform (1-based) that has a GPU device; 0 when none has.
FirstMatch ==
    LET S == {p \in 1..Len(gpu) : gpu[p]}
    IN  IF S = {} THEN 0 ELSE CHOOSE p \in S : \A q \in S : p <= q

\* C14: the platforms are queried in enumeration order, each at most once;
\* a device is held only from the lowest-index platform whose query succeeds;
\* a successful query is the last query of the run.
C14_FirstMatch ==
    /\ \A q \in 1..Len(Queries) : Queries[q].n = q - 1 /\ Queries[q].ok = gpu[q]
    /\ Len(Queries) <= Len(gpu)
    /\ \A q \in 1..Len(Queries) : Queries[q].ok => q = Len(Queries)
    /\ device_id /= NULL =>
          /\ device_id = FirstMatch
          /\ Len(Queries) = device_id
    /\ (FirstMatch /= 0 /\ pc \notin SelectionLabels /\ Calls("clGetDeviceIDs") /= {})
          => device_id = FirstMatch
    /\ \A j \in 1..Len(created) :
          created[j].obj \in {"context", "commands"} =>
              created[j].device = FirstMatch /\ FirstMatch /= 0

\* Two platforms with a GPU each: the device came from the first, the second
\* was not queried, and the run went on to create its context.
C14_Witness ==
    /\ Len(gpu) = 2 /\ gpu[1] /\ gpu[2]
    /\ device_id = 1
    /\ Len(Queries) = 1
    /\ obj["context"] = "live"

\* The first platform has no GPU and the second has: the device is the second's.
C14_WitnessSecond ==
    /\ Len(gpu) = 2 /\ ~gpu[1] /\ gpu[2]
    /\ device_id = 2
    /\ Len(Queries) = 2
    /\ obj["context"] = "live"

\* ---------------------------------------------------------------- C15
\* The creation calls made so far for the handle variable v.
CreationsOf(v) == {j \in 1..Len(created) : created[j].obj = v}

\* The queue executes its commands in the order they were enqueued.
InOrder(properties) == NatAnd(properties, CL_QUEUE_OUT_OF_ORDER_EXEC_MODE_ENABLE) = 0

\* The context creation j was made in: its own parent, or for the kernel the
\* parent of the program it was made from.
ContextOf(j) ==
    IF created[j].obj = "kernel_cuboid_area"
    THEN IF created[j].in = NULL THEN NULL ELSE created[created[j].in].in
    ELSE created[j].in

\* C15: at most one context and one command queue are created, and exactly
\* one of each once a command is enqueued; the queue is in-order and is made
\* in that context for the selected device; the program, the kernel and the
\* four buffers are made in that context; every write, launch and read is
\* enqueued on that queue.
C15_SingleContextAndQueue ==
    /\ Cardinality(CreationsOf("context")) <= 1
    /\ Cardinality(CreationsOf("commands")) <= 1
    /\ \A c \in CreationsOf("context") :
          created[c].device = device_id /\ device_id /= NULL
    /\ \A j \in 1..Len(created) :
          created[j].obj /= "context" =>
              /\ ContextOf(j) \in CreationsOf("context")
              /\ created[ContextOf(j)].ok
    /\ \A j \in CreationsOf("kernel_cuboid_area") :
          created[j].in \in CreationsOf("program") /\ created[created[j].in].ok
    /\ \A q \in CreationsOf("commands") :
          /\ InOrder(created[q].properties)
          /\ created[q].device = device_id
          /\ created[q].device = created[created[q].in].device
    /\ \A n \in 1..Len(enqueued) :
          /\ enqueued[n].on \in CreationsOf("commands")
          /\ created[enqueued[n].on].ok
    /\ enqueued /= <<>> =>
          /\ Cardinality(CreationsOf("context")) = 1
          /\ Cardinality(CreationsOf("commands")) = 1
          /\ \A o \in Buffers \cup {"program", "kernel_cuboid_area"} :
                \E j \in CreationsOf(o) : created[j].ok

\* The three writes, the launch and the read were enqueued, for the device of
\* the second platform.
C15_Witness ==
    /\ Len(enqueued) = 5
    /\ enqueued[5].kind = "read" /\ enqueued[5].ok
    /\ device_id = 2

\* ---------------------------------------------------------------- C16
Int32(v) == INT_MIN <= v /\ v <= INT_MAX

\* Every value the evaluation of 2 * ((a * b) + (b * c) + (a * c)) produces.
Intermediates(a, b, c) ==
    { a * b, b * c, a * c, (a * b) + (b * c), ((a * b) + (b * c)) + (a * c),
      2 * (((a * b) + (b * c)) + (a * c)) }

ReadBack == \E k \in Calls("clEnqueueReadBuffer") : log[k].ok
SequentialDone == CallsOn("wtime", "seq_stop") /= {}

\* C16: every generated input lies in 1..9; at every index the area lies in
\* 6..486 on the device path and on the sequential path, and every product
\* and sum of its evaluation is a value of a signed 32-bit integer.
C16_InRange ==
    /\ \A k \in 1..LENGTH :
          /\ {source_a[k], source_b[k], source_c[k]} \subseteq 1..9
          /\ \A v \in Intermediates(source_a[k], source_b[k], source_c[k]) : Int32(v)
          /\ cuboid_area(source_a[k], source_b[k], source_c[k]) \in 6..486
          /\ sequential_area(source_a[k], source_b[k], source_c[k]) \in 6..486
    /\ ReadBack => \A k \in 1..LENGTH : result_opencl[k] \in 6..486
    /\ SequentialDone => \A k \in 1..LENGTH : result_sequential[k] \in 6..486
    /\ \A b \in {"d_a", "d_b", "d_c"} : \A k \in 1..Len(mem[b]) :
          mem[b][k] \in 1..9 \cup {UninitializedWord}
    /\ \A k \in 1..Len(mem["d_result"]) :
          mem["d_result"][k] \in 6..486 \cup {UninitializedWord}

\* Both paths have computed the least area, 6, and the greatest, 486.
C16_Witness ==
    /\ ReadBack /\ SequentialDone
    /\ \E k \in 1..LENGTH : result_opencl[k] = 6 /\ result_sequential[k] = 6
    /\ \E k \in 1..LENGTH : result_opencl[k] = 486 /\ result_sequential[k] = 486

\* ---------------------------------------------------------------- C17
\* The line of the speedup ratio has been printed.
RatioPrinted == \E n \in 1..Len(out) : out[n].text = "The sequential time is"

EnqueueOps == {"clEnqueueWriteBuffer", "clEnqueueNDRangeKernel", "clEnqueueReadBuffer"}

\* The calls whose failure fails a step of the pipeline.
FailedCalls ==
    {k \in DeviceCalls :
        log[k].op \in StrictOps \cup {"clSetKernelArg"} /\ ~log[k].ok}

\* C17: the ratio and the result tuples are printed only when every earlier
\* step was made and succeeded, the readback included; after a failed step no
\* command is enqueued, and no ratio and no tuple is printed.
C17_ReportAfterSuccess ==
    /\ (RatioPrinted \/ TupleLines /= {}) =>
          /\ ReadBack /\ SequentialDone
          /\ ~StepFailed
          /\ device_id /= NULL
          /\ EnqueueOps \subseteq OpsCalled
          /\ \A n \in 0..3 : \E k \in Bindings(n) : log[k].ok
          /\ result_opencl = Transfer(mem["d_result"], LENGTH * sizeof_int)
    /\ TupleLines /= {} => RatioPrinted
    /\ StepFailed => ~RatioPrinted /\ TupleLines = {}
    /\ \A k \in FailedCalls :
          \A j \in DeviceCalls : j > k => log[j].op \notin EnqueueOps
    /\ (ZeroPlatforms \/ NoGPU) => enqueued = <<>>

\* A run of more elements than the report shows printed the ratio and one
\* hundred tuples, every one read inside the arrays.
C17_Witness ==
    /\ RatioPrinted
    /\ Cardinality(TupleLines) = PRINT_COUNT
    /\ oob_reads = 0
    /\ ~StepFailed

====
